---- MODULE Spec2Model ----
(***************************************************************************)
(* Model of claude_session_analyzer.py (parser, locator, recent-session    *)
(* report, export, live monitor) and of the API-integrated monitor of      *)
(* examples/sdk_integration_example.py.                                    *)
(*                                                                         *)
(* Time is counted in abstract units: a file's startTime / lastUpdate are  *)
(* epoch timestamps 0..MaxTime, a datetime is the naive local wall-clock   *)
(* reading that datetime.fromtimestamp produces for it (epoch + the UTC    *)
(* offset the local zone has at that instant), a timedelta is a difference *)
(* of two such readings.                                                   *)
(***************************************************************************)
EXTENDS Integers, Sequences, FiniteSets, TLC

\* ------------------------------------------------------------------ bounds
MaxTime == 1
MaxTicks == 3
MaxFiles == 2
MaxMtime == 2

\* ------------------------------------------------- file contents (inputs)
Ids == {"s1", "s2"}
TimeVals == 0..MaxTime
Keys == {"sessionID", "startTime", "lastUpdate"}

\* A JSON document with all three required keys.
Doc(id, st, lu) ==
  [kind |-> "json", has |-> Keys, sessionID |-> id, startTime |-> st, lastUpdate |-> lu]

FullDocs == { Doc(id, st, lu) : id \in Ids, st \in TimeVals, lu \in TimeVals }

\* Valid JSON lacking exactly one of the required keys.
MissingKeyDocs == { [Doc("s1", 0, 0) EXCEPT !.has = Keys \ {k}] : k \in Keys }

\* No file, a file that cannot be opened, a file that is not JSON.
NoDoc(k) ==
  [kind |-> k, has |-> {}, sessionID |-> "s1", startTime |-> 0, lastUpdate |-> 0]

Absent == NoDoc("absent")
Unreadable == NoDoc("unreadable")
NotJson == NoDoc("notjson")

Contents == FullDocs \cup MissingKeyDocs \cup {Absent, Unreadable, NotJson}

\* Contents of the files the batch operations scan (one session identifier).
FsContents == { c \in Contents : c.kind # "absent" /\ c.sessionID = "s1" }

\* ------------------------------------------------------- local time zones
\* The zone the process runs in: UTC offset `before` up to instant `at`,
\* `after` from then on.  The second zone sets its clock back by one unit at
\* instant 1 (end of daylight saving time).
Zones == { [at |-> 0, before |-> 0, after |-> 0],
           [at |-> 1, before |-> 1, after |-> 0] }

\* datetime.datetime.fromtimestamp(ms / 1000): naive local wall-clock time.
\* (Naive datetimes compare and subtract by wall-clock reading only.)
fromtimestamp(z, t) == t + (IF t < z.at THEN z.before ELSE z.after)

\* ---------------------------------------------------------------- parser
LivePath == [dirs |-> <<"statsig">>, name |-> <<"statsig", "session_id", "2656274335">>]

\* The None that analyze_session_file returns from its except branch.
None ==
  [session_id |-> "None", start_time |-> 0, last_update |-> 0, duration |-> 0,
   file_path |-> [dirs |-> <<>>, name |-> <<>>]]

\* open() or json.load() or a data[...] lookup raises.
Raises(c) == c.kind # "json" \/ c.has # Keys

\* Variant: data.get(key, default) in place of data[key].
analyze_session_file_defaults(path, c, z) ==
  IF c.kind # "json" THEN None
  ELSE [session_id |-> c.sessionID,
        start_time |-> fromtimestamp(z, c.startTime),
        last_update |-> fromtimestamp(z, c.lastUpdate),
        duration |-> fromtimestamp(z, c.lastUpdate) - fromtimestamp(z, c.startTime),
        file_path |-> path]

analyze_session_file(path, c, z) ==
  IF Raises(c) THEN None
  ELSE [session_id |-> c.sessionID,
        start_time |-> fromtimestamp(z, c.startTime),
        last_update |-> fromtimestamp(z, c.lastUpdate),
        duration |-> fromtimestamp(z, c.lastUpdate) - fromtimestamp(z, c.startTime),
        file_path |-> path]

\* ------------------------------------------------------------ output lines
Line(k, id, n) == [kind |-> k, id |-> id, num |-> n]

\* --------------------------------------------------------------- locator
\* Files that may exist below ~/.claude, in directory-listing order.  A path
\* is its directories below the base and its file name split at the dots.
Catalogue ==
  << [dirs |-> <<>>, name |-> <<"top", "json">>],
     [dirs |-> <<"statsig">>, name |-> <<"statsig", "session_id", "1">>],
     [dirs |-> <<"statsig">>, name |-> <<"statsig", "session_id", "2", "json">>],
     [dirs |-> <<"projects">>, name |-> <<"x", "json">>],
     [dirs |-> <<"ide">>, name |-> <<"session_id", "y", "json">>],
     [dirs |-> <<"projects", "p">>, name |-> <<"session_id", "deep", "json">>] >>

Paths == { Catalogue[i] : i \in 1..Len(Catalogue) }

\* A name or directory beginning with a dot is skipped by "*" and "**".
Hidden(tokens) == tokens[1] = ""

\* glob.glob(claude_dir / 'statsig' / 'statsig.session_id.*')
MatchesLive(p) ==
  /\ p.dirs = <<"statsig">>
  /\ Len(p.name) >= 3
  /\ p.name[1] = "statsig"
  /\ p.name[2] = "session_id"

\* glob.glob(claude_dir / '**' / '*.json') without recursive=True: "**" is an
\* ordinary "*" and stands for exactly one directory.
MatchesJson(p) ==
  /\ Len(p.dirs) = 1
  /\ ~Hidden(<<p.dirs[1]>>)
  /\ Len(p.name) >= 2
  /\ ~Hidden(p.name)
  /\ p.name[Len(p.name)] = "json"

Present(f, p) == f[p].kind # "absent"

\* session_files after the loop over both patterns (extend, in pattern order)
find_session_data(f) ==
  SelectSeq(Catalogue, LAMBDA p : Present(f, p) /\ MatchesLive(p))
    \o SelectSeq(Catalogue, LAMBDA p : Present(f, p) /\ MatchesJson(p))

\* 'session_id' in file_path
HasSessionId(p) ==
  \/ \E i \in 1..Len(p.dirs) : p.dirs[i] = "session_id"
  \/ \E i \in 1..Len(p.name) : p.name[i] = "session_id"

\* ---------------------------------------------------------------- report
Days == 7
NowVals == {3, 10}

\* the dict appended to export_data['sessions']
ExportEntry(r) ==
  [session_id |-> r.session_id, start_time |-> r.start_time,
   last_update |-> r.last_update, duration_seconds |-> r.duration,
   file_path |-> r.file_path]

\* ------------------------------------------------------------ API monitor
Budget == 6
PollSleep == 2
ErrorSleep == 5


VARIABLES
  tz,             \* local time zone of the process
  pc,             \* position of the running operation
  out,            \* lines printed so far
  file,           \* content of the live session file at the latest read
  prev_file,      \* content at the read of the tick before
  last_data,      \* monitor_live_session: last_data
  current_data,   \* monitor_live_session: current_data
  prev_data,      \* current_data of the tick before
  held0,          \* last_data when the current tick began
  out0,           \* Len(out) when the current tick began
  ticks,          \* ticks begun so far
  mode,           \* sys.argv[1]: "report" (no argument) or "export"
  fs,             \* content of every catalogue path ("absent" if not there)
  now,            \* datetime.datetime.now() as an epoch instant
  session_files,  \* result of find_session_data()
  idx,            \* position of the for loop in session_files
  report,         \* records printed by analyze_recent_activity
  export_data,    \* export_data['sessions']
  mtime,          \* st_mtime of the live session file
  last_mtime,     \* monitor_session_realtime: last_mtime
  analysis_count, \* monitor_session_realtime: analysis_count
  clock,          \* seconds since monitor_session_realtime began
  reported        \* session_data of every analysis event, in order

monVars == <<prev_file, last_data, current_data, prev_data, held0, out0, ticks>>
repVars == <<mode, fs, now, session_files, idx, report, export_data>>
apiVars == <<mtime, last_mtime, analysis_count, clock, reported>>
vars == <<tz, pc, out, file, monVars, repVars, apiVars>>

MonIdle ==
  /\ prev_file = Absent
  /\ last_data = None
  /\ current_data = None
  /\ prev_data = None
  /\ held0 = None
  /\ out0 = 0
  /\ ticks = 0

RepIdle ==
  /\ mode = "report"
  /\ fs = [p \in Paths |-> Absent]
  /\ now = 0
  /\ session_files = <<>>
  /\ idx = 0
  /\ report = <<>>
  /\ export_data = <<>>

ApiIdle ==
  /\ mtime = 0
  /\ last_mtime = 0
  /\ analysis_count = 0
  /\ clock = 0
  /\ reported = <<>>

\* ------------------------------------------------- monitor_live_session
LoopPcs == {"parse", "print1", "print2", "print3", "print4", "assign", "sleep"}

MonInit ==
  /\ tz \in Zones
  /\ pc = "start"
  /\ out = <<>>
  /\ file = Absent
  /\ MonIdle
  /\ RepIdle
  /\ ApiIdle

\* lines 99-110: existence check, banner, last_data = None
MonStart ==
  /\ pc = "start"
  /\ \E exists \in BOOLEAN :
       IF ~exists
       THEN /\ out' = Append(out, Line("nofile", "", 0))
            /\ pc' = "returned"
       ELSE /\ out' = out \o <<Line("banner", "", 0), Line("watching", "", 0),
                               Line("hint", "", 0)>>
            /\ pc' = "parse"
  /\ last_data' = None
  /\ UNCHANGED <<tz, file, prev_file, current_data, prev_data, held0, out0, ticks>>
  /\ UNCHANGED <<repVars, apiVars>>

\* Variant: the loop is left when the parse fails.
MonParse_stops ==
  /\ pc = "parse"
  /\ ticks < MaxTicks
  /\ \E c \in Contents :
       LET r == analyze_session_file(LivePath, c, tz) IN
         /\ file' = c
         /\ current_data' = r
         /\ out' = IF r = None THEN Append(out, Line("error", "", 0)) ELSE out
         /\ out0' = Len(out')
         /\ pc' = IF r = None THEN "returned"
                  ELSE IF last_data # r THEN "print1" ELSE "sleep"
  /\ prev_file' = file
  /\ prev_data' = current_data
  /\ held0' = last_data
  /\ ticks' = ticks + 1
  /\ UNCHANGED <<tz, last_data, repVars, apiVars>>

\* lines 111-114: one read and parse of the file, whose content the
\* environment decides, then the two tests
MonParse ==
  /\ pc = "parse"
  /\ ticks < MaxTicks
  /\ \E c \in Contents :
       LET r == analyze_session_file(LivePath, c, tz) IN
         /\ file' = c
         /\ current_data' = r
         /\ out' = IF r = None THEN Append(out, Line("error", "", 0)) ELSE out
         /\ out0' = Len(out')
         /\ pc' = IF r # None /\ last_data # r THEN "print1" ELSE "sleep"
  /\ prev_file' = file
  /\ prev_data' = current_data
  /\ held0' = last_data
  /\ ticks' = ticks + 1
  /\ UNCHANGED <<tz, last_data, repVars, apiVars>>

MonPrint(from, to, l) ==
  /\ pc = from
  /\ out' = Append(out, l)
  /\ pc' = to
  /\ UNCHANGED <<tz, file, monVars, repVars, apiVars>>

\* line 115
MonPrint1 == MonPrint("print1", "print2", Line("updated", "", 0))
\* line 116
MonPrint2 == MonPrint("print2", "print3", Line("id", current_data.session_id, 0))
\* line 117
MonPrint3 == MonPrint("print3", "print4", Line("duration", "", current_data.duration))
\* line 118
MonPrint4 == MonPrint("print4", "assign", Line("last", "", current_data.last_update))

\* Variant: the held record is never replaced.
MonAssign_forget ==
  /\ pc = "assign"
  /\ pc' = "sleep"
  /\ UNCHANGED <<tz, out, file, monVars, repVars, apiVars>>

\* line 119
MonAssign ==
  /\ pc = "assign"
  /\ last_data' = current_data
  /\ pc' = "sleep"
  /\ UNCHANGED <<tz, out, file, prev_file, current_data, prev_data, held0, out0, ticks>>
  /\ UNCHANGED <<repVars, apiVars>>

\* lines 121-123, back to the head of the loop
MonSleep ==
  /\ pc = "sleep"
  /\ pc' = "parse"
  /\ UNCHANGED <<tz, out, file, monVars, repVars, apiVars>>

\* lines 124-125: KeyboardInterrupt delivered anywhere inside the try block
MonInterrupt ==
  /\ pc \in LoopPcs
  /\ out' = Append(out, Line("stopped", "", 0))
  /\ pc' = "stopped"
  /\ UNCHANGED <<tz, file, monVars, repVars, apiVars>>

MonNext ==
  \/ MonStart
  \/ MonParse
  \/ MonPrint1
  \/ MonPrint2
  \/ MonPrint3
  \/ MonPrint4
  \/ MonAssign
  \/ MonSleep
  \/ MonInterrupt

SpecMonitor == MonInit /\ [][MonNext]_vars

\* ------------------------- analyze_recent_activity and export_session_data
\* The sets of catalogue files a run may find: at most MaxFiles of them.
FileSets == { T \in SUBSET Paths : Cardinality(T) <= MaxFiles }

RepInit ==
  /\ tz \in Zones
  /\ pc = "main"
  /\ out = <<>>
  /\ file = Absent
  /\ mode \in {"report", "export"}
  /\ \E S \in FileSets : \E g \in [S -> FsContents] :
       fs = [p \in Paths |-> IF p \in S THEN g[p] ELSE Absent]
  /\ now \in (IF mode = "report" THEN NowVals ELSE {0})
  /\ session_files = <<>>
  /\ idx = 0
  /\ report = <<>>
  /\ export_data = <<>>
  /\ MonIdle
  /\ ApiIdle

\* current_time - datetime.timedelta(days=days), both naive local readings
week_ago == fromtimestamp(tz, now) - Days

\* lines 59-66 and 129-136: locate the files, set up the run
RepLocate ==
  /\ pc = "main"
  /\ session_files' = find_session_data(fs)
  /\ idx' = 1
  /\ pc' = "scan"
  /\ UNCHANGED <<tz, out, file, mode, fs, now, report, export_data, monVars, apiVars>>

\* lines 68-77: one iteration of the report's loop
RepStep ==
  /\ pc = "scan"
  /\ mode = "report"
  /\ idx <= Len(session_files)
  /\ LET p == session_files[idx]
         r == analyze_session_file(p, fs[p], tz)
     IN IF HasSessionId(p)
        THEN /\ out' = IF r = None THEN Append(out, Line("error", "", idx)) ELSE out
             /\ report' = IF r # None /\ r.start_time > week_ago
                          THEN Append(report, r) ELSE report
        ELSE UNCHANGED <<out, report>>
  /\ idx' = idx + 1
  /\ UNCHANGED <<tz, pc, file, mode, fs, now, session_files, export_data, monVars, apiVars>>

\* lines 139-149: one iteration of the export's loop
ExpStep ==
  /\ pc = "scan"
  /\ mode = "export"
  /\ idx <= Len(session_files)
  /\ LET p == session_files[idx]
         r == analyze_session_file(p, fs[p], tz)
     IN IF HasSessionId(p)
        THEN /\ out' = IF r = None THEN Append(out, Line("error", "", idx)) ELSE out
             /\ export_data' = IF r # None
                               THEN Append(export_data, ExportEntry(r)) ELSE export_data
        ELSE UNCHANGED <<out, export_data>>
  /\ idx' = idx + 1
  /\ UNCHANGED <<tz, pc, file, mode, fs, now, session_files, report, monVars, apiVars>>

\* the loop is exhausted: lines 79-95 (todo listing) or 151-166 (todo entries,
\* json.dump, the two summary lines); neither touches the session records
RepFinish ==
  /\ pc = "scan"
  /\ idx > Len(session_files)
  /\ out' = IF mode = "export"
            THEN out \o <<Line("exported", "", 0), Line("found", "", Len(export_data))>>
            ELSE out
  /\ pc' = "done"
  /\ UNCHANGED <<tz, file, repVars, monVars, apiVars>>

RepNext ==
  \/ RepLocate
  \/ RepStep
  \/ ExpStep
  \/ RepFinish

SpecReport == RepInit /\ [][RepNext]_vars

\* ------------------------- ClaudeAPISessionAnalyzer.monitor_session_realtime
\* read_session_data: the same parse, of self.session_file
read_session_data(c, z) == analyze_session_file(LivePath, c, z)

ApiInit ==
  /\ tz \in Zones
  /\ pc = "api_start"
  /\ out = <<>>
  /\ file \in Contents
  /\ mtime \in 0..MaxMtime
  /\ last_mtime = 0
  /\ analysis_count = 0
  /\ clock = 0
  /\ reported = <<>>
  /\ MonIdle
  /\ RepIdle

\* lines 147-155
ApiStart ==
  /\ pc = "api_start"
  /\ IF ~(file.kind # "absent")
     THEN /\ out' = Append(out, Line("nofile", "", 0))
          /\ pc' = "returned"
          /\ UNCHANGED last_mtime
     ELSE /\ out' = Append(out, Line("starting", "", Budget))
          /\ last_mtime' = mtime
          /\ pc' = "api_loop"
  /\ analysis_count' = 0
  /\ clock' = 0
  /\ UNCHANGED <<tz, file, mtime, reported, monVars, repVars>>

\* the lines one analysis prints (162, 168, 171-175)
ApiEvent(r) ==
  << Line("file_updated", "", 0), Line("analyzing", "", 0),
     Line("id", r.session_id, 0), Line("duration", "", r.duration),
     Line("insights", "", 0), Line("rule", "", 0) >>

\* lines 157-185: one iteration of the while loop.  Since the iteration
\* before, the environment may have rewritten, touched or removed the file:
\* m is its modification time now, c its content now.
ApiTick ==
  /\ pc = "api_loop"
  /\ clock < Budget
  /\ \E m \in mtime..MaxMtime, c \in Contents :
       /\ m = mtime => c = file
       /\ mtime' = m
       /\ file' = c
       /\ IF c.kind = "absent"
          THEN \* stat() raises: lines 183-185
               /\ out' = Append(out, Line("monitoring_error", "", 0))
               /\ clock' = clock + ErrorSleep
               /\ UNCHANGED <<last_mtime, analysis_count, reported>>
          ELSE /\ clock' = clock + PollSleep
               /\ IF m > last_mtime
                  THEN LET r == read_session_data(c, tz) IN
                         /\ last_mtime' = m
                         /\ IF r # None
                            THEN /\ out' = out \o ApiEvent(r)
                                 /\ analysis_count' = analysis_count + 1
                                 /\ reported' = Append(reported, r)
                            ELSE /\ out' = out \o <<Line("file_updated", "", 0),
                                                    Line("error", "", 0)>>
                                 /\ UNCHANGED <<analysis_count, reported>>
                  ELSE UNCHANGED <<out, last_mtime, analysis_count, reported>>
  /\ UNCHANGED <<tz, pc, monVars, repVars>>

\* line 187: the budget is used up
ApiFinish ==
  /\ pc = "api_loop"
  /\ clock >= Budget
  /\ out' = Append(out, Line("completed", "", analysis_count))
  /\ pc' = "api_done"
  /\ UNCHANGED <<tz, file, apiVars, monVars, repVars>>

ApiNext ==
  \/ ApiStart
  \/ ApiTick
  \/ ApiFinish

SpecApi == ApiInit /\ [][ApiNext]_vars

\* ======================================================== properties
\* The failures the parser is to report: no file, unreadable, not JSON, or a
\* required key missing.
ParseFailure(c) ==
  \/ c.kind \in {"absent", "unreadable", "notjson"}
  \/ \E k \in Keys : k \notin c.has

\* Record equality of the data model: identifier, start and last update.
SameRecord(a, b) ==
  /\ a.session_id = b.session_id
  /\ a.start_time = b.start_time
  /\ a.last_update = b.last_update

UpdateKinds == {"updated", "id", "duration", "last"}

\* The lines of update events among the lines s.
UpdateLines(s) == SelectSeq(s, LAMBDA l : l.kind \in UpdateKinds)

\* What the current tick of monitor_live_session has printed so far.
TickLines == SubSeq(out, out0 + 1, Len(out))

\* One whole update event for record r.
UpdateEvent(r) ==
  << Line("updated", "", 0), Line("id", r.session_id, 0),
     Line("duration", "", r.duration), Line("last", "", r.last_update) >>

\* C1: when two consecutive ticks both parse and yield equal records, the
\* second tick prints no update line and leaves the held record as it was.
C1_EqualRecordSilent ==
  (/\ ticks >= 2
   /\ ~ParseFailure(prev_file)
   /\ ~ParseFailure(file)
   /\ SameRecord(prev_data, current_data))
  => (/\ UpdateLines(TickLines) = <<>>
      /\ last_data = held0
      /\ pc \in {"sleep", "parse", "stopped"})

C1_Witness ==
  /\ pc = "sleep"
  /\ ticks >= 2
  /\ ~ParseFailure(file)
  /\ prev_file = file
  /\ last_data = current_data
  /\ Len(UpdateLines(out)) = 4

\* C2: a completed tick that parsed the file emits exactly one update event,
\* carrying the new record, and holds the new record, whenever lastUpdate
\* differs from the one parsed on the tick before or no record was held.
C2_ChangeEmitsOne ==
  (/\ pc = "sleep"
   /\ ~ParseFailure(file)
   /\ \/ held0 = None
      \/ /\ ticks >= 2
         /\ ~ParseFailure(prev_file)
         /\ prev_file.lastUpdate # file.lastUpdate)
  => (/\ UpdateLines(TickLines) = UpdateEvent(current_data)
      /\ last_data = current_data)

\* C3: a tick whose parse fails prints no update line, keeps the held record
\* and goes on to the sleep; and the tick after a failed one, if it parses a
\* record other than the held one, emits its event and holds it.
C3_FailedTickStep ==
  (pc = "parse" /\ pc' # "stopped" /\ ParseFailure(file'))
  => (/\ pc' = "sleep"
      /\ last_data' = last_data
      /\ UpdateLines(out') = UpdateLines(out))

C3_Recovered ==
  (/\ pc = "sleep"
   /\ ticks >= 2
   /\ ParseFailure(prev_file)
   /\ ~ParseFailure(file)
   /\ ~SameRecord(current_data, held0))
  => (/\ UpdateLines(TickLines) = UpdateEvent(current_data)
      /\ last_data = current_data)

\* C3: every step is a step in which a failed parse keeps the state and the
\* loop, and leads to a state in which the tick after a failure has recovered.
C3_FailedParseKeepsState == [][C3_FailedTickStep /\ C3_Recovered']_vars

C3_Witness ==
  /\ pc = "sleep"
  /\ ticks = 3
  /\ ParseFailure(prev_file)
  /\ held0 # None
  /\ ~ParseFailure(file)
  /\ ~SameRecord(current_data, held0)
  /\ last_data = current_data
  /\ Len(UpdateLines(out)) = 8

\* The located files that parse, in the order located.
GoodFiles == SelectSeq(session_files, LAMBDA p : ~ParseFailure(fs[p]))

\* What a run over the files fl alone prints (report) or collects (export).
RunOver(fl) ==
  LET rec(p) == analyze_session_file(p, fs[p], tz)
      kept == SelectSeq(fl, LAMBDA p :
                /\ HasSessionId(p)
                /\ (mode = "report" => rec(p).start_time > week_ago))
  IN [i \in 1..Len(kept) |-> rec(kept[i])]

\* C4: a run always gets through the whole list; no output record comes
\* from a file that fails to parse; and the output is the one a run over the
\* list without the failing files gives.
C4_BadFilesSkipped ==
  pc = "done" =>
    /\ idx = Len(session_files) + 1
    /\ \A i \in 1..Len(report) : ~ParseFailure(fs[report[i].file_path])
    /\ \A i \in 1..Len(export_data) : ~ParseFailure(fs[export_data[i].file_path])
    /\ mode = "report" => report = RunOver(GoodFiles)
    /\ mode = "export" =>
         export_data = [i \in 1..Len(RunOver(GoodFiles)) |-> ExportEntry(RunOver(GoodFiles)[i])]

C4_Witness ==
  /\ pc = "done"
  /\ \E i \in 1..Len(session_files) :
       /\ ParseFailure(fs[session_files[i]])
       /\ fs[session_files[i]].kind = "json"
       /\ HasSessionId(session_files[i])
       /\ \E j \in 1..Len(session_files) :
            /\ j > i
            /\ \/ \E k \in 1..Len(report) : report[k].file_path = session_files[j]
               \/ \E k \in 1..Len(export_data) :
                    export_data[k].file_path = session_files[j]

\* C5: find_session_data returns no path twice.
C5_NoDuplicatePaths ==
  pc \in {"scan", "done"} =>
    \A i, j \in 1..Len(session_files) : i # j => session_files[i] # session_files[j]

\* C6: every existing file named *.json, at any depth below the base
\* directory, is in the result of find_session_data.
C6_AllJsonLocated ==
  pc \in {"scan", "done"} =>
    \A p \in Paths :
      (Present(fs, p) /\ p.name[Len(p.name)] = "json")
        => \E i \in 1..Len(session_files) : session_files[i] = p

\* C7: the report prints a located file's record exactly when the file
\* parses and its start lies within the last Days days before now.
C7_ReportExactlyRecent ==
  (pc = "done" /\ mode = "report") =>
    \A i \in 1..Len(session_files) :
      LET p == session_files[i] IN
        (\E k \in 1..Len(report) : report[k].file_path = p)
          <=> (/\ ~ParseFailure(fs[p])
               /\ fs[p].startTime > now - Days
               /\ fs[p].startTime <= now)

\* C8: no record printed or exported has a negative duration.
C8_NonNegativeDuration ==
  /\ \A i \in 1..Len(report) : report[i].duration >= 0
  /\ \A i \in 1..Len(export_data) : export_data[i].duration_seconds >= 0

\* C9: once monitor_live_session is interrupted, the closing message is the
\* one last line and every update event before it is whole.
C9_CleanCancel ==
  pc = "stopped" =>
    /\ out[Len(out)].kind = "stopped"
    /\ Cardinality({ i \in 1..Len(out) : out[i].kind = "stopped" }) = 1
    /\ Len(UpdateLines(out)) % 4 = 0

\* C10: monitor_session_realtime never reports a record equal to the one it
\* reported last.
C10_NoDuplicateAnalysis ==
  \A i \in 1..(Len(reported) - 1) : ~SameRecord(reported[i], reported[i + 1])

====
